---- MODULE Spec2Model ----
(***************************************************************************)
(* Model of the real-estate backend: the in-memory account and invitation  *)
(* stores (app/db/memory_db.py), the authentication endpoints              *)
(* (app/api/v1/endpoints/auth.py), the token helpers (app/core/security.py)*)
(* the Firebase backend resolution (app/core/firebase.py,                  *)
(* app/services/firestore.py), the property API and the maintenance        *)
(* scripts.                                                                *)
(*                                                                         *)
(* Spec          the account endpoints executed one call at a time         *)
(* SpecProfile   login, register and the endpoints behind a bearer token   *)
(* SpecInvite    the invitation lifecycle with the clock, one call at a time *)
(* SpecConc      register / accept-invitation split at their store calls   *)
(* SpecFirebase  backend resolution and FirestoreService construction      *)
(* SpecApi       the property API (app/routers/properties.py)              *)
(* SpecList      memory_db.get_properties over stores built by create      *)
(* SpecStore     the property stores called directly: memory_db and one    *)
(*               FirestoreService instance in mock mode                    *)
(* SpecScripts   scripts/manage_users.py and app/db/init_db.py             *)
(* SpecToken     create_access_token / verify_token as the clock advances  *)
(* SpecPassword  get_password_hash / verify_password                       *)
(***************************************************************************)
EXTENDS Integers, Sequences, FiniteSets, TLC

VARIABLES
    users_db,        \* memory_db.users_db: insertion-ordered records, id = position
    invitations_db,  \* memory_db.invitations_db: insertion-ordered records
    now,             \* datetime.utcnow(), in minutes
    tokens,          \* bearer tokens issued by login so far
    result,          \* outcome of the last endpoint call
    accepted,        \* history: the tokens for which accept-invitation returned a user
    procs,           \* SpecConc: the in-flight requests and their positions
    env,             \* os.environ (the Firebase part)
    firebase_app,    \* firebase._firebase_app
    services,        \* the FirestoreService instances created so far
    fb_result,       \* outcome of the last firebase / FirestoreService call
    properties_db,   \* memory_db.properties_db: insertion-ordered records
    list_result,     \* get_properties, when it was the last call: arguments and return value
    api_result,      \* outcome of the last request to the property API
    api_visible,     \* history: what the API's create, update and delete calls returned, by id
    tok_result,      \* the last create_access_token / verify_token call
    pw_result,       \* the last get_password_hash / verify_password call
    uuids,           \* the number of generated ids (uuid4, Firestore document ids) so far
    documents,       \* the 'properties' collection of the live Firestore database
    issued,          \* history: the create_access_token calls, with their tokens
    mock_properties, \* FirestoreService.mock_properties of one instance in mock mode
    store_result     \* the last call into a property store: arguments and return value

vars == <<users_db, invitations_db, now, tokens, result, accepted, procs,
          env, firebase_app, services, fb_result,
          properties_db, list_result, api_result, api_visible, tok_result, pw_result, uuids, documents, issued,
          mock_properties, store_result>>

authVars == <<users_db, invitations_db, now, tokens, result, accepted>>
fbVars == <<env, firebase_app, services, fb_result>>
auxVars == <<properties_db, list_result, api_result, api_visible, tok_result, pw_result, uuids, documents, issued,
             mock_properties, store_result>>

----------------------------------------------------------------------------
(* Bounds *)
MaxUsers == 3
MaxInvitations == 1
MaxTime == 15
MaxTokens == 1
MaxMissing == 1
MaxServices == 1
MaxDocuments == 1
MaxProperties == 4
MaxSkip == 1
MaxStored == 2
MaxMock == 3

(* Program constants *)
ACCESS_TOKEN_EXPIRE_MINUTES == 30

(* Input domains *)
None == "None"
ADMIN == "admin"
CLIENT == "client"
UserRole == {ADMIN, CLIENT}
admin_email == "admin@realestate.com"
admin_password == "admin123"
Emails == {admin_email, "a@b.com", "c@d.com"}
InviteeEmails == {"a@b.com"}
Passwords == {admin_password, "pw1"}
NewPasswords == {"pw1"}
Names == {"New User"}
Salts == {"s1"}
Times == {0, MaxTime}   \* the instants at which the clock is read
InvTokens == <<"t1", "t2", "t3">>   \* 32 random characters each, all distinct
NoExpiry == <<>>   \* expires_at = None; <<t>> is an expiry at minute t
ExpiryTimes == {NoExpiry, <<0>>, <<30>>}
Procs == {1, 2}

\* firebase.py lines 17-28
required_env_vars ==
    {"FIREBASE_TYPE", "FIREBASE_PROJECT_ID", "FIREBASE_PRIVATE_KEY_ID",
     "FIREBASE_PRIVATE_KEY", "FIREBASE_CLIENT_EMAIL", "FIREBASE_CLIENT_ID",
     "FIREBASE_AUTH_URI", "FIREBASE_TOKEN_URI",
     "FIREBASE_AUTH_PROVIDER_X509_CERT_URL", "FIREBASE_CLIENT_X509_CERT_URL"}

\* values of USE_MOCK_FIREBASE; "" also stands for the variable being unset
FlagValues == {"", "true", "TRUE", "1", "yes", "false"}

\* os.environ: the flag, the required variables that are unset and those
\* set to the empty string; every other required variable has a value
FullEnv == [flag |-> "", unset |-> {}, empty |-> {}]

----------------------------------------------------------------------------
(* app/core/security.py *)

\* pwd_context is CryptContext(schemes=["bcrypt"]): bcrypt reads at most
\* the first 72 bytes of the secret
bcrypt_max_bytes == 72

bcrypt_secret(password) ==
    IF Len(password) > bcrypt_max_bytes THEN SubSeq(password, 1, bcrypt_max_bytes)
    ELSE password

\* pwd_context.hash: a salted one-way digest
get_password_hash(password, salt) ==
    [salt |-> salt, digest |-> <<bcrypt_secret(password), salt>>]

\* stands for a hashed_password of None in an updates dict
NoHash == [salt |-> None, digest |-> <<>>]

\* mutation of verify_password: every password is accepted
verify_password_any(plain_password, hashed_password) == TRUE

\* pwd_context.verify: recompute the digest with the stored salt
verify_password(plain_password, hashed_password) ==
    <<bcrypt_secret(plain_password), hashed_password.salt>> = hashed_password.digest

\* expires_delta = None; <<d>> is timedelta(minutes=d)
NoDelta == <<>>

\* line 29: timedelta(minutes=15)
default_expire_minutes == 15

\* jwt.encode of the claims plus the absolute expiry, signed with SECRET_KEY;
\* None and timedelta(0) are both falsy and take the else branch
create_access_token(data, expires_delta) ==
    LET expire == IF expires_delta # NoDelta /\ expires_delta[1] # 0
                  THEN now + expires_delta[1]
                  ELSE now + default_expire_minutes
    IN [sub |-> data.sub, role |-> data.role, exp |-> expire, signed |-> TRUE]

\* a token that was not signed with SECRET_KEY
GARBAGE == [sub |-> None, role |-> None, exp |-> 0, signed |-> FALSE]

\* the payload standing for the None that verify_token returns
NoPayload == [sub |-> None, role |-> None, exp |-> -1, signed |-> FALSE]

\* mutation of verify_token: the exp claim is not checked
verify_token_any_exp(token) ==
    IF ~token.signed THEN NoPayload ELSE token

\* jwt.decode: None on a JWTError (bad signature, or exp before now)
verify_token(token) ==
    IF ~token.signed THEN NoPayload
    ELSE IF token.exp < now THEN NoPayload
    ELSE token

----------------------------------------------------------------------------
(* app/db/memory_db.py: users *)

\* first record whose email matches, as its id; 0 stands for None
get_user_by_email_in(db, email) ==
    IF \E i \in 1..Len(db) : db[i].email = email
    THEN CHOOSE i \in 1..Len(db) :
            /\ db[i].email = email
            /\ \A j \in 1..(i - 1) : db[j].email # email
    ELSE 0

get_user_by_email(email) == get_user_by_email_in(users_db, email)

create_user(db, email, full_name, hashed_password, role) ==
    Append(db, [email |-> email, full_name |-> full_name,
                hashed_password |-> hashed_password, role |-> role])

\* mutation of update_user: the email field is not written
update_user_keeps_email(db, email, updates) ==
    LET id == get_user_by_email_in(db, email) IN
    IF id = 0 THEN db
    ELSE LET user == db[id]
             u1 == IF updates.full_name \notin {None, ""}
                   THEN [user EXCEPT !.full_name = updates.full_name] ELSE user
             u3 == IF updates.hashed_password # NoHash
                   THEN [u1 EXCEPT !.hashed_password = updates.hashed_password] ELSE u1
         IN [db EXCEPT ![id] = u3]

\* partial merge: falsy values ("" or None) leave the field alone
update_user(db, email, updates) ==
    LET id == get_user_by_email_in(db, email) IN
    IF id = 0 THEN db
    ELSE LET user == db[id]
             u1 == IF updates.full_name \notin {None, ""}
                   THEN [user EXCEPT !.full_name = updates.full_name] ELSE user
             u2 == IF updates.email \notin {None, ""}
                   THEN [u1 EXCEPT !.email = updates.email] ELSE u1
             u3 == IF updates.hashed_password # NoHash
                   THEN [u2 EXCEPT !.hashed_password = updates.hashed_password] ELSE u2
         IN [db EXCEPT ![id] = u3]

\* get_current_user(token, get_user_by_email): the id of the user, 0 for None
get_current_user(token) ==
    LET payload == verify_token(token) IN
    IF payload = NoPayload THEN 0
    ELSE IF payload.sub = None THEN 0
    ELSE get_user_by_email(payload.sub)

----------------------------------------------------------------------------
(* app/db/memory_db.py: invitations *)

generate_invitation_token == InvTokens[Len(invitations_db) + 1]

create_invitation_rec(email, role, token, expires_at) ==
    [email |-> email, role |-> role, token |-> token,
     expires_at |-> expires_at, is_used |-> FALSE]

get_invitation_by_token_in(db, token) ==
    IF \E i \in 1..Len(db) : db[i].token = token
    THEN CHOOSE i \in 1..Len(db) :
            /\ db[i].token = token
            /\ \A j \in 1..(i - 1) : db[j].token # token
    ELSE 0

get_invitation_by_token(token) == get_invitation_by_token_in(invitations_db, token)

\* mutation of mark_invitation_as_used: the flag is not written back
mark_invitation_as_used_noop(db, token) == db

mark_invitation_as_used(db, token) ==
    LET i == get_invitation_by_token_in(db, token) IN
    IF i = 0 THEN db ELSE [db EXCEPT ![i].is_used = TRUE]

----------------------------------------------------------------------------
\* result: the endpoint called, its outcome, the invitation token and the role
\* of the payload (when it has one) and the id of the user it returned
NoResult == [op |-> "none", outcome |-> "none", token |-> None,
             role |-> None, user |-> 0]

Res(op, outcome, token, email, role, user) ==
    [op |-> op, outcome |-> outcome, token |-> token, role |-> role, user |-> user]

\* a request in flight: its position, its arguments, the invitation it looked
\* up, its outcome and the id of the user it created
NoProc == [pc |-> "idle", op |-> "none", token |-> None, email |-> None,
           role |-> None, inv |-> 0, outcome |-> "none", user |-> 0]

----------------------------------------------------------------------------
(* app/core/firebase.py *)

MOCK_APP == "mock_app"
LIVE_APP == "live_app"    \* the handle firebase_admin.initialize_app returns

NoFbResult == [op |-> "none", ret |-> None]
FbRes(op, ret) == [op |-> op, ret |-> ret]

\* os.environ.get(var): None when unset
os_environ_get(e, var) ==
    IF var \in e.unset THEN None
    ELSE IF var \in e.empty THEN ""
    ELSE "value"

\* str.lower() on the flag values
lower(str) == IF str = "TRUE" THEN "true" ELSE str

\* mutation of validate_firebase_credentials: only unset variables count
validate_firebase_credentials_unset_only(e) ==
    {var \in required_env_vars : os_environ_get(e, var) = None} = {}

validate_firebase_credentials(e) ==
    LET missing_env_vars ==
            {var \in required_env_vars : os_environ_get(e, var) \in {None, ""}}
    IN missing_env_vars = {}

\* "mock", or the credentials dict (abstracted to "creds")
get_firebase_credentials(e) ==
    LET use_mock == lower(e.flag) \in {"true", "1", "yes"} IN
    IF use_mock THEN "mock"
    ELSE IF ~validate_firebase_credentials(e) THEN "mock"
    ELSE "creds"

\* lines 81-90: credentials.Certificate and firebase_admin.initialize_app
\* either return the app or raise; the except branch falls back to mock_app
construct_app(creds, ok) == IF ok THEN LIVE_APP ELSE MOCK_APP

\* mutation of resolve: the "is None" guard is dropped
resolve_always(app, e, ok) ==
    IF get_firebase_credentials(e) = "mock" THEN MOCK_APP
    ELSE construct_app(get_firebase_credentials(e), ok)

\* the value initialize_firebase leaves in _firebase_app; ok says whether
\* the SDK calls succeed
resolve(app, e, ok) ==
    IF app = None
    THEN IF get_firebase_credentials(e) = "mock" THEN MOCK_APP
         ELSE construct_app(get_firebase_credentials(e), ok)
    ELSE app

\* a timestamp field: <<>> when the record has no such key, <<t>> otherwise
NoStamp == <<>>
\* "2024-03-20T00:00:00Z", a date before the process started
mock_created_at == -1

\* firestore.py, _create_mock_properties: the sample properties every mock
\* instance starts with
create_mock_properties ==
    << [id |-> "1", title |-> "Luxury Waterfront Villa", price |-> 1200000,
        created_at |-> <<mock_created_at>>, updated_at |-> <<mock_created_at>>],
       [id |-> "2", title |-> "Modern Downtown Penthouse", price |-> 850000,
        created_at |-> <<mock_created_at>>, updated_at |-> <<mock_created_at>>],
       [id |-> "3", title |-> "Cozy Mountain Cabin", price |-> 450000,
        created_at |-> <<mock_created_at>>, updated_at |-> <<mock_created_at>>] >>

\* the values of the result variables before the first call
NoListResult == [called |-> FALSE, skip |-> 0, limit |-> 0, property_type |-> None,
                 min_price |-> <<>>, max_price |-> <<>>, location |-> None,
                 ret |-> <<>>]
NoApiResult == [op |-> "none", outcome |-> "none", id |-> None,
                ret |-> [id |-> None, title |-> None, price |-> 0,
                         created_at |-> <<>>, updated_at |-> <<>>],
                items |-> <<>>]
NoStoreResult == [op |-> "none", id |-> None, ret |-> <<>>, ok |-> FALSE]
NoTokResult == [op |-> "none", data |-> [sub |-> None, role |-> None],
                expires_delta |-> <<>>, issued_at |-> 0,
                token |-> [sub |-> None, role |-> None, exp |-> -1, signed |-> FALSE],
                payload |-> [sub |-> None, role |-> None, exp |-> -1, signed |-> FALSE]]
NoPwResult == [op |-> "none", password |-> None, candidate |-> None,
               hashed |-> [salt |-> None, digest |-> <<>>], ret |-> FALSE]

Init ==
    /\ properties_db = <<>>
    /\ list_result = NoListResult
    /\ api_result = NoApiResult
    /\ api_visible = {}
    /\ tok_result = NoTokResult
    /\ pw_result = NoPwResult
    /\ uuids = 0
    /\ documents = <<>>
    /\ issued = {}
    /\ mock_properties = create_mock_properties
    /\ store_result = NoStoreResult
    /\ \E salt \in Salts :
         users_db = create_user(<<>>, admin_email, "Admin User",
                                get_password_hash(admin_password, salt), ADMIN)
    /\ invitations_db = <<>>
    /\ now = 0
    /\ tokens = {}
    /\ result = NoResult
    /\ accepted = {}
    /\ procs = [p \in Procs |-> NoProc]
    /\ env = FullEnv
    /\ firebase_app = None
    /\ services = <<>>
    /\ fb_result = NoFbResult

initialize_firebase(ok) ==
    /\ firebase_app' = resolve(firebase_app, env, ok)
    /\ fb_result' = FbRes("initialize_firebase", firebase_app')
    /\ UNCHANGED <<env, services, authVars, procs, auxVars>>

get_firebase_app(ok) ==
    /\ firebase_app' = IF firebase_app = None
                       THEN resolve(firebase_app, env, ok) ELSE firebase_app
    /\ fb_result' = FbRes("get_firebase_app", firebase_app')
    /\ UNCHANGED <<env, services, authVars, procs, auxVars>>

\* instances built before the reset keep the mode they were built with
reset_firebase_app ==
    /\ firebase_app' = None
    /\ services' = [i \in 1..Len(services) |-> [services[i] EXCEPT !.current = FALSE]]
    /\ fb_result' = FbRes("reset_firebase_app", "True")
    /\ UNCHANGED <<env, authVars, procs, auxVars>>

\* get_db: None on mock_app or when firestore.client raises
get_db(ok, client_ok) ==
    /\ firebase_app' = IF firebase_app = None
                       THEN resolve(firebase_app, env, ok) ELSE firebase_app
    /\ fb_result' = FbRes("get_db",
           IF firebase_app' = MOCK_APP THEN None
           ELSE IF client_ok THEN "client" ELSE None)
    /\ UNCHANGED <<env, services, authVars, procs, auxVars>>

\* the environment changes (load_dotenv, the deployment's settings)
setenv(var, state) ==
    /\ env' = [env EXCEPT
                 !.unset = IF state = "unset" THEN @ \cup {var} ELSE @ \ {var},
                 !.empty = IF state = "empty" THEN @ \cup {var} ELSE @ \ {var}]
    /\ Cardinality(env'.unset \cup env'.empty) <= MaxMissing
    /\ fb_result' = FbRes("setenv", None)
    /\ UNCHANGED <<firebase_app, services, authVars, procs, auxVars>>

setflag(value) ==
    /\ env' = [env EXCEPT !.flag = value]
    /\ fb_result' = FbRes("setenv", None)
    /\ UNCHANGED <<firebase_app, services, authVars, procs, auxVars>>

----------------------------------------------------------------------------
(* app/services/firestore.py *)

\* FirestoreService.__init__: the mode of the new instance; client_ok says
\* whether firestore.client(firebase_app) returns
is_mock_of(app, client_ok) ==
    IF app = MOCK_APP THEN TRUE
    ELSE IF client_ok THEN FALSE
    ELSE TRUE

FirestoreService(ok, client_ok) ==
    /\ Len(services) < MaxServices
    /\ firebase_app' = IF firebase_app = None
                       THEN resolve(firebase_app, env, ok) ELSE firebase_app
    /\ services' = Append(services,
           [is_mock |-> is_mock_of(firebase_app', client_ok), current |-> TRUE])
    /\ fb_result' = FbRes("FirestoreService",
           IF is_mock_of(firebase_app', client_ok) THEN "mock" ELSE "live")
    /\ UNCHANGED <<env, authVars, procs, auxVars>>

\* get_all_properties on instance i: the store the call reads
get_all_properties(i) ==
    /\ fb_result' = FbRes("get_all_properties",
           IF services[i].is_mock THEN "mock" ELSE "live")
    /\ UNCHANGED <<env, firebase_app, services, authVars, procs, auxVars>>

NextFirebase ==
    \/ \E var \in required_env_vars, state \in {"unset", "empty", "value"} :
          setenv(var, state)
    \/ \E value \in FlagValues : setflag(value)
    \/ \E ok \in BOOLEAN : initialize_firebase(ok)
    \/ \E ok \in BOOLEAN : get_firebase_app(ok)
    \/ reset_firebase_app
    \/ \E ok \in BOOLEAN, client_ok \in BOOLEAN : get_db(ok, client_ok)
    \/ \E ok \in BOOLEAN, client_ok \in BOOLEAN : FirestoreService(ok, client_ok)
    \/ \E i \in 1..Len(services) : get_all_properties(i)

SpecFirebase == Init /\ [][NextFirebase]_vars

----------------------------------------------------------------------------
(* app/routers/properties.py over app/services/firestore.py *)

IdStr == <<"1", "2", "3", "4", "5", "6">>   \* str(n)
DocIds == <<"d1", "d2", "d3">>              \* Firestore's auto-generated ids
Titles == {"Loft", "Barn"}
PropertyIds == {"1", "4", "d1", "zz"}
\* stands for None
NoProperty == [id |-> None, title |-> None, price |-> 0,
               created_at |-> NoStamp, updated_at |-> NoStamp]

PropertyCreate == [title : Titles, price : {300000}]
\* PropertyUpdate after the "v is not None" filter of the router (line 204):
\* <<>> is a field that was left out
PropertyUpdate == [title : {<<>>} \cup {<<t>> : t \in Titles},
                   price : {<<>>, <<310000>>}]

\* position of the first element with that id, 0 when there is none
index_of(list, property_id) ==
    IF \E i \in 1..Len(list) : list[i].id = property_id
    THEN CHOOSE i \in 1..Len(list) :
            /\ list[i].id = property_id
            /\ \A j \in 1..(i - 1) : list[j].id # property_id
    ELSE 0

\* dict.update(property_data), then the id is written back and updated_at
\* set to the time of the call
merge(prop, property_id, property_data) ==
    [id |-> property_id,
     title |-> IF property_data.title = <<>> THEN prop.title ELSE property_data.title[1],
     price |-> IF property_data.price = <<>> THEN prop.price ELSE property_data.price[1],
     created_at |-> prop.created_at,
     updated_at |-> <<now>>]

remove_at(list, i) == [j \in 1..(Len(list) - 1) |-> IF j < i THEN list[j] ELSE list[j + 1]]

ApiRes(op, outcome, id, ret, items) ==
    [op |-> op, outcome |-> outcome, id |-> id, ret |-> ret, items |-> items]

\* the record of the history for that id, replacing an older one
remember(visible, id, rec) == {v \in visible : v[1] # id} \cup {<<id, rec>>}

\* Depends(get_firestore_service): the provider resolves on first use
service_is_mock(ok, client_ok) ==
    is_mock_of(IF firebase_app = None THEN resolve(firebase_app, env, ok)
               ELSE firebase_app, client_ok)

api_frame(ok) ==
    /\ firebase_app' = IF firebase_app = None
                       THEN resolve(firebase_app, env, ok) ELSE firebase_app
    /\ UNCHANGED <<env, services, fb_result, authVars, procs,
                   properties_db, list_result, tok_result, pw_result, issued,
                   mock_properties, store_result>>

\* the history is kept while the provider is resolved to the mock backend
track(visible, id, rec) ==
    IF firebase_app' = MOCK_APP THEN remember(visible, id, rec) ELSE visible

\* POST /properties; backend_ok says whether the Firestore calls return
api_create_property(property_data, ok, client_ok, backend_ok) ==
    /\ api_frame(ok)
    /\ IF service_is_mock(ok, client_ok)
       THEN LET own_properties == create_mock_properties   \* of this request's instance
                new == [id |-> IdStr[Len(own_properties) + 1],
                        title |-> property_data.title, price |-> property_data.price,
                        created_at |-> NoStamp, updated_at |-> NoStamp]
            IN /\ api_result' = ApiRes("create", "created", new.id, new, <<>>)
               /\ api_visible' = track(api_visible, new.id, new)
               /\ UNCHANGED <<documents, uuids>>
       ELSE IF backend_ok
       THEN LET new == [id |-> DocIds[uuids + 1],
                        title |-> property_data.title, price |-> property_data.price,
                        created_at |-> <<now>>, updated_at |-> <<now>>]
            IN /\ Len(documents) < MaxDocuments /\ uuids < Len(DocIds)
               /\ documents' = Append(documents, new)
               /\ uuids' = uuids + 1
               /\ api_result' = ApiRes("create", "created", new.id, new, <<>>)
               /\ UNCHANGED api_visible
       ELSE /\ api_result' = ApiRes("create", "internal_error", None, NoProperty, <<>>)
            /\ UNCHANGED <<documents, uuids, api_visible>>

\* GET /properties/{property_id}
api_get_property(property_id, ok, client_ok, backend_ok) ==
    LET list == IF service_is_mock(ok, client_ok) THEN create_mock_properties
                ELSE IF backend_ok THEN documents
                ELSE <<>>      \* the exception is logged and None returned
        i == index_of(list, property_id)
    IN /\ api_frame(ok)
       /\ api_result' = IF i = 0
                        THEN ApiRes("get", "not_found", property_id, NoProperty, <<>>)
                        ELSE ApiRes("get", "ok", property_id, list[i], <<>>)
       /\ UNCHANGED <<documents, uuids, api_visible>>

\* GET /properties
api_get_properties(ok, client_ok, backend_ok) ==
    LET list == IF service_is_mock(ok, client_ok) THEN create_mock_properties
                ELSE IF backend_ok THEN documents
                ELSE <<>>      \* the exception is logged and [] returned
    IN /\ api_frame(ok)
       /\ api_result' = ApiRes("list", "ok", None, NoProperty, list)
       /\ UNCHANGED <<documents, uuids, api_visible>>

\* PUT /properties/{property_id}
api_update_property(property_id, update_data, ok, client_ok, backend_ok) ==
    /\ api_frame(ok)
    /\ IF service_is_mock(ok, client_ok)
       THEN LET i == index_of(create_mock_properties, property_id) IN
            IF i = 0
            THEN /\ api_result' = ApiRes("update", "not_found", property_id, NoProperty, <<>>)
                 /\ UNCHANGED <<documents, uuids, api_visible>>
            ELSE LET new == merge(create_mock_properties[i], property_id, update_data)
                 IN /\ api_result' = ApiRes("update", "ok", property_id, new, <<>>)
                    /\ api_visible' = track(api_visible, property_id, new)
                    /\ UNCHANGED <<documents, uuids>>
       ELSE LET i == IF backend_ok THEN index_of(documents, property_id) ELSE 0 IN
            IF i = 0
            THEN /\ api_result' = ApiRes("update", "not_found", property_id, NoProperty, <<>>)
                 /\ UNCHANGED <<documents, uuids, api_visible>>
            ELSE LET new == merge(documents[i], property_id, update_data)
                 IN /\ documents' = [documents EXCEPT ![i] = new]
                    /\ api_result' = ApiRes("update", "ok", property_id, new, <<>>)
                    /\ UNCHANGED <<uuids, api_visible>>

\* DELETE /properties/{property_id}
api_delete_property(property_id, ok, client_ok, backend_ok) ==
    /\ api_frame(ok)
    /\ IF service_is_mock(ok, client_ok)
       THEN LET i == index_of(create_mock_properties, property_id) IN
            IF i = 0
            THEN /\ api_result' = ApiRes("delete", "not_found", property_id, NoProperty, <<>>)
                 /\ UNCHANGED <<documents, uuids, api_visible>>
            ELSE /\ api_result' = ApiRes("delete", "deleted", property_id, NoProperty, <<>>)
                 /\ api_visible' = track(api_visible, property_id, NoProperty)
                 /\ UNCHANGED <<documents, uuids>>
       ELSE LET i == IF backend_ok THEN index_of(documents, property_id) ELSE 0 IN
            IF i = 0
            THEN /\ api_result' = ApiRes("delete", "not_found", property_id, NoProperty, <<>>)
                 /\ UNCHANGED <<documents, uuids, api_visible>>
            ELSE /\ documents' = remove_at(documents, i)
                 /\ api_result' = ApiRes("delete", "deleted", property_id, NoProperty, <<>>)
                 /\ UNCHANGED <<uuids, api_visible>>

NextApi ==
    \/ \E value \in FlagValues : setflag(value)
    \/ \E property_data \in PropertyCreate, ok, client_ok, backend_ok \in BOOLEAN :
          api_create_property(property_data, ok, client_ok, backend_ok)
    \/ \E property_id \in PropertyIds, ok, client_ok, backend_ok \in BOOLEAN :
          api_get_property(property_id, ok, client_ok, backend_ok)
    \/ \E ok, client_ok, backend_ok \in BOOLEAN :
          api_get_properties(ok, client_ok, backend_ok)
    \/ \E property_id \in PropertyIds, update_data \in PropertyUpdate,
          ok, client_ok, backend_ok \in BOOLEAN :
          api_update_property(property_id, update_data, ok, client_ok, backend_ok)
    \/ \E property_id \in PropertyIds, ok, client_ok, backend_ok \in BOOLEAN :
          api_delete_property(property_id, ok, client_ok, backend_ok)

SpecApi == Init /\ [][NextApi]_vars

----------------------------------------------------------------------------
(* app/api/v1/endpoints/auth.py, one call at a time *)

\* datetime.utcnow() advances
Tick ==
    /\ \E t \in Times : t > now /\ now' = t
    /\ UNCHANGED <<users_db, invitations_db, tokens, result, accepted, procs, fbVars, auxVars>>

\* POST /token
login(username, password) ==
    LET user == get_user_by_email(username) IN
    /\ IF user = 0 \/ ~verify_password(password, users_db[user].hashed_password)
       THEN /\ result' = Res("login", "unauthorized", None, username, None, 0)
            /\ UNCHANGED tokens
       ELSE LET access_token ==
                    create_access_token([sub |-> users_db[user].email,
                                         role |-> users_db[user].role],
                                        <<ACCESS_TOKEN_EXPIRE_MINUTES>>)
            IN /\ Cardinality(tokens \cup {access_token}) <= MaxTokens
               /\ tokens' = tokens \cup {access_token}
               /\ result' = Res("login", "ok", None, username, None, user)
    /\ UNCHANGED <<users_db, invitations_db, now, accepted, procs, fbVars, auxVars>>

\* the role the endpoint hands to create_user (auth.py line 68)
RegisterRole(user) == user.role

\* POST /register
register(user, salt) ==
    /\ IF get_user_by_email(user.email) # 0
       THEN /\ result' = Res("register", "email_taken", None, user.email, user.role, 0)
            /\ UNCHANGED users_db
       ELSE /\ Len(users_db) < MaxUsers
            /\ users_db' = create_user(users_db, user.email, user.full_name,
                                       get_password_hash(user.password, salt),
                                       RegisterRole(user))
            /\ result' = Res("register", "ok", None, user.email, user.role,
                             Len(users_db) + 1)
    /\ UNCHANGED <<invitations_db, now, tokens, accepted, procs, fbVars, auxVars>>

\* memory_db.create_invitation with a token from generate_invitation_token
create_invitation(email, role, expires_at) ==
    /\ Len(invitations_db) < MaxInvitations
    /\ invitations_db' = Append(invitations_db,
           create_invitation_rec(email, role, generate_invitation_token, expires_at))
    /\ result' = Res("create_invitation", "ok", generate_invitation_token, email, role, 0)
    /\ UNCHANGED <<users_db, now, tokens, accepted, procs, fbVars, auxVars>>

\* auth.py imports only timedelta from datetime (lines 1-28): the name
\* datetime is unbound in the module, so evaluating datetime.utcnow() on
\* line 102 raises NameError
datetime_is_bound == FALSE

\* line 102: "ok" when the check passes, "expired" when the 400 is raised,
\* "internal_error" when evaluating the condition raises
expiry_check(invitation) ==
    IF invitation.expires_at = NoExpiry THEN "ok"
    ELSE IF ~datetime_is_bound THEN "internal_error"
    ELSE IF invitation.expires_at[1] < now THEN "expired"
    ELSE "ok"

\* mutation of AcceptRole: the role of the payload is used
AcceptRole_payload(invitation, user) == user.role

\* the role the endpoint hands to create_user (auth.py line 120)
AcceptRole(invitation, user) == invitation.role

\* POST /accept-invitation/{token}
accept_invitation(token, user, salt) ==
    LET inv == get_invitation_by_token(token) IN
    /\ IF inv = 0 \/ invitations_db[inv].is_used
       THEN /\ result' = Res("accept_invitation", "invalid_or_used", token,
                             user.email, user.role, 0)
            /\ UNCHANGED <<users_db, invitations_db, accepted>>
       ELSE IF expiry_check(invitations_db[inv]) # "ok"
       THEN /\ result' = Res("accept_invitation", expiry_check(invitations_db[inv]),
                             token, user.email, user.role, 0)
            /\ UNCHANGED <<users_db, invitations_db, accepted>>
       ELSE IF get_user_by_email(user.email) # 0
       THEN /\ result' = Res("accept_invitation", "email_taken", token,
                             user.email, user.role, 0)
            /\ UNCHANGED <<users_db, invitations_db, accepted>>
       ELSE /\ Len(users_db) < MaxUsers
            /\ users_db' = create_user(users_db, user.email, user.full_name,
                                       get_password_hash(user.password, salt),
                                       AcceptRole(invitations_db[inv], user))
            /\ invitations_db' = mark_invitation_as_used(invitations_db, token)
            /\ accepted' = accepted \cup {token}
            /\ result' = Res("accept_invitation", "ok", token, user.email,
                             user.role, Len(users_db) + 1)
    /\ UNCHANGED <<now, tokens, procs, fbVars, auxVars>>

\* mutation of email_taken: the endpoint does not look the new email up
email_taken_unchecked(update_data, current_user) == FALSE

\* line 139-145: the new email is refused when another record has it
email_taken(update_data, current_user) ==
    /\ update_data.email # users_db[current_user].email
    /\ get_user_by_email(update_data.email) # 0

\* mutation of password_check: a new password is taken without the current one
password_check_skipped(update_data, current_user) == "ok"

\* lines 148-160: the current password is asked for and verified when a new
\* password is requested; None and "" are both falsy
password_check(update_data, current_user) ==
    IF update_data.new_password \in {None, ""} THEN "ok"
    ELSE IF update_data.current_password \in {None, ""}
    THEN "current_password_required"
    ELSE IF ~verify_password(update_data.current_password,
                             users_db[current_user].hashed_password)
    THEN "incorrect_current_password"
    ELSE "ok"

\* PUT /update-profile
update_profile(update_data, token, salt) ==
    LET current_user == get_current_user(token) IN
    /\ IF current_user = 0
       THEN /\ result' = Res("update_profile", "unauthorized", None,
                             update_data.email, None, 0)
            /\ UNCHANGED users_db
       ELSE IF email_taken(update_data, current_user)
       THEN /\ result' = Res("update_profile", "email_taken", None,
                             update_data.email, None, current_user)
            /\ UNCHANGED users_db
       ELSE IF password_check(update_data, current_user) # "ok"
       THEN /\ result' = Res("update_profile", password_check(update_data, current_user),
                             None, update_data.email, None, current_user)
            /\ UNCHANGED users_db
       ELSE /\ users_db' = update_user(users_db, users_db[current_user].email,
                   [full_name |-> update_data.full_name,
                    email |-> update_data.email,
                    hashed_password |->
                        IF update_data.new_password \notin {None, ""}
                        THEN get_password_hash(update_data.new_password, salt)
                        ELSE NoHash])
            /\ result' = Res("update_profile", "ok", None, update_data.email,
                             None, current_user)
    /\ UNCHANGED <<invitations_db, now, tokens, accepted, procs, fbVars, auxVars>>

\* tokens signed with SECRET_KEY before this process started: one that has
\* expired and one without a subject
EXPIRED == [sub |-> admin_email, role |-> ADMIN, exp |-> -5, signed |-> TRUE]
NOSUB == [sub |-> None, role |-> CLIENT, exp |-> 30, signed |-> TRUE]

\* GET /me
read_users_me(token) ==
    LET user == get_current_user(token) IN
    /\ result' = IF user = 0
                 THEN Res("read_users_me", "unauthorized", None, None, None, 0)
                 ELSE Res("read_users_me", "ok", None, None, None, user)
    /\ UNCHANGED <<users_db, invitations_db, now, tokens, accepted, procs, fbVars,
                   auxVars>>

\* deps.py binds the name get_current_user twice: the import of line 3 and
\* the one-parameter coroutine function of lines 24-30, which is the binding
\* in force when get_current_admin runs; the call of line 10 passes two
\* arguments and raises TypeError
deps_get_current_user_takes_two == FALSE

\* deps.get_current_admin: the outcome of the dependency
get_current_admin(token) ==
    IF ~deps_get_current_user_takes_two THEN "internal_error"
    ELSE IF get_current_user(token) = 0 THEN "unauthorized"
    ELSE IF users_db[get_current_user(token)].role # ADMIN THEN "forbidden"
    ELSE "ok"

\* POST /invite
invite_user(invitation, token) ==
    /\ IF get_current_admin(token) # "ok"
       THEN /\ result' = Res("invite_user", get_current_admin(token), None,
                             invitation.email, invitation.role, 0)
            /\ UNCHANGED invitations_db
       ELSE /\ Len(invitations_db) < MaxInvitations
            /\ invitations_db' = Append(invitations_db,
                   create_invitation_rec(invitation.email, invitation.role,
                                         generate_invitation_token,
                                         invitation.expires_at))
            /\ result' = Res("invite_user", "ok", generate_invitation_token,
                             invitation.email, invitation.role,
                             get_current_user(token))
    /\ UNCHANGED <<users_db, now, tokens, accepted, procs, fbVars, auxVars>>

InvitationCreate == [email : InviteeEmails, role : UserRole, expires_at : {NoExpiry}]

UserCreate(emails) == [email : emails, full_name : Names,
                       password : NewPasswords, role : UserRole]

UpdateProfileRequest(emails) ==
    [full_name : Names, email : emails \cup {""},
     current_password : Passwords \cup {None},
     new_password : NewPasswords \cup {None}]

\* the account endpoints, one call at a time; the invitations have no expiry
Next ==
    \/ \E username \in Emails, password \in Passwords : login(username, password)
    \/ \E user \in UserCreate(Emails), salt \in Salts : register(user, salt)
    \/ \E email \in InviteeEmails, role \in UserRole :
          create_invitation(email, role, NoExpiry)
    \/ \E i \in 1..Len(InvTokens), user \in UserCreate(Emails), salt \in Salts :
          accept_invitation(InvTokens[i], user, salt)
    \/ \E update_data \in UpdateProfileRequest(Emails),
          token \in tokens \cup {GARBAGE}, salt \in Salts :
          update_profile(update_data, token, salt)

Spec == Init /\ [][Next]_vars

\* login, registration and the endpoints behind a bearer token, one call at a time
NextProfile ==
    \/ \E username \in Emails, password \in Passwords : login(username, password)
    \/ \E user \in UserCreate(Emails), salt \in Salts : register(user, salt)
    \/ \E update_data \in UpdateProfileRequest(Emails),
          token \in tokens \cup {GARBAGE}, salt \in Salts :
          update_profile(update_data, token, salt)
    \/ \E token \in tokens \cup {GARBAGE, EXPIRED, NOSUB} : read_users_me(token)
    \/ \E invitation \in InvitationCreate, token \in tokens \cup {GARBAGE} :
          invite_user(invitation, token)

SpecProfile == Init /\ [][NextProfile]_vars

\* the invitation lifecycle with the clock, one call at a time
NextInvite ==
    \/ Tick
    \/ \E user \in UserCreate(Emails), salt \in Salts : register(user, salt)
    \/ \E email \in InviteeEmails, role \in UserRole, expires_at \in ExpiryTimes :
          create_invitation(email, role, expires_at)
    \/ \E i \in 1..Len(InvTokens), user \in UserCreate(Emails), salt \in Salts :
          accept_invitation(InvTokens[i], user, salt)

SpecInvite == Init /\ [][NextInvite]_vars
----------------------------------------------------------------------------
(* app/core/security.py: create_access_token and verify_token over time *)

TokenSubjects == {admin_email, "a@b.com", None}
TokenData == [sub : TokenSubjects, role : {CLIENT}]
Deltas == {NoDelta, <<0>>, <<5>>}

tokenFrame == UNCHANGED <<users_db, invitations_db, tokens, result, accepted, procs,
                          fbVars, properties_db, list_result, api_result,
                          api_visible, pw_result, uuids, documents,
                          mock_properties, store_result>>

\* one minute passes
Minute ==
    /\ now < MaxTime
    /\ now' = now + 1
    /\ UNCHANGED <<tok_result, issued>>
    /\ tokenFrame

TokRes(op, data, expires_delta, token, payload) ==
    [op |-> op, data |-> data, expires_delta |-> expires_delta, issued_at |-> now,
     token |-> token, payload |-> payload]

\* a call of create_access_token(data, expires_delta)
issue_token(data, expires_delta) ==
    LET token == create_access_token(data, expires_delta)
        call == [token |-> token, data |-> data, expires_delta |-> expires_delta,
                 issued_at |-> now]
    IN /\ Cardinality(issued \cup {call}) <= MaxTokens
       /\ issued' = issued \cup {call}
       /\ tok_result' = TokRes("create_access_token", data, expires_delta,
                               token, NoPayload)
       /\ UNCHANGED now
       /\ tokenFrame

\* a call of verify_token(token)
check_token(token) ==
    /\ tok_result' = TokRes("verify_token", [sub |-> None, role |-> None], NoDelta,
                            token, verify_token(token))
    /\ UNCHANGED <<now, issued>>
    /\ tokenFrame

NextToken ==
    \/ Minute
    \/ \E data \in TokenData, expires_delta \in Deltas : issue_token(data, expires_delta)
    \/ \E token \in {c.token : c \in issued} \cup {GARBAGE} : check_token(token)

SpecToken == Init /\ [][NextToken]_vars
----------------------------------------------------------------------------
(* app/core/security.py: get_password_hash and verify_password *)

Long72 == "xxxxxxxxxxxxxxxxxxxxxxxxxxxxxxxxxxxxxxxxxxxxxxxxxxxxxxxxxxxxxxxxxxxxxxxx"
PlainPasswords == {admin_password, "pw1", "simple123", "simple123wrong", "Short1",
                   Long72, Long72 \o "A", Long72 \o "B"}
HashSalts == {"s1", "s2"}

passwordFrame == UNCHANGED <<authVars, procs, fbVars, properties_db, list_result,
                             api_result, api_visible, tok_result, uuids, documents,
                             issued, mock_properties, store_result>>

\* hashed = get_password_hash(password)
hash_password(password, salt) ==
    /\ pw_result' = [op |-> "get_password_hash", password |-> password,
                     candidate |-> None,
                     hashed |-> get_password_hash(password, salt), ret |-> FALSE]
    /\ passwordFrame

\* verify_password(candidate, hashed) with the hash of the last call
check_password(candidate) ==
    /\ pw_result.op # "none"
    /\ pw_result' = [pw_result EXCEPT
                       !.op = "verify_password", !.candidate = candidate,
                       !.ret = verify_password(candidate, pw_result.hashed)]
    /\ passwordFrame

NextPassword ==
    \/ \E password \in PlainPasswords, salt \in HashSalts : hash_password(password, salt)
    \/ \E candidate \in PlainPasswords : check_password(candidate)

SpecPassword == Init /\ [][NextPassword]_vars
----------------------------------------------------------------------------
(* app/db/memory_db.py: properties *)

Uuids == <<"u1", "u2", "u3", "u4", "u5", "u6">>   \* str(uuid.uuid4()), all distinct
SampleProperties ==
    { [price |-> 450000, property_type |-> "Cabin", location |-> "Aspen"],
      [price |-> 500000, property_type |-> "Luxury", location |-> "Miami"],
      [price |-> 750000, property_type |-> "Cabin", location |-> "Miami"],
      [price |-> 1200000, property_type |-> "Luxury", location |-> "Aspen"] }
NoPrice == <<>>   \* min_price / max_price = None; <<p>> is the bound p
TypeFilters == {None, "Luxury", "luxury"}
MinPrices == {NoPrice, <<500000>>}
MaxPrices == {NoPrice, <<800000>>}
LocationFilters == {None, "MIA"}
Limits == {2, 10}

ascii_uppercase == "ABCDEFGHIJKLMNOPQRSTUVWXYZ"
ascii_lowercase == "abcdefghijklmnopqrstuvwxyz"

\* str.lower() of one character
lower_char(c) ==
    IF \E i \in 1..Len(ascii_uppercase) : SubSeq(ascii_uppercase, i, i) = c
    THEN LET i == CHOOSE j \in 1..Len(ascii_uppercase) : SubSeq(ascii_uppercase, j, j) = c
         IN SubSeq(ascii_lowercase, i, i)
    ELSE c

\* str.lower()
RECURSIVE str_lower(_)
str_lower(str) ==
    IF Len(str) = 0 THEN ""
    ELSE lower_char(SubSeq(str, 1, 1)) \o str_lower(SubSeq(str, 2, Len(str)))

\* a in b, for strings
str_in(a, b) ==
    \E i \in 0..(Len(b) - Len(a)) : SubSeq(b, i + 1, i + Len(a)) = a

\* list[skip:skip + limit]
slice(list, skip, limit) ==
    LET last == IF skip + limit < Len(list) THEN skip + limit ELSE Len(list)
    IN IF skip >= last THEN <<>> ELSE SubSeq(list, skip + 1, last)

\* list(properties_db.values())
values(db) == [i \in 1..Len(db) |-> db[i].value]

by_type(list, property_type) ==
    IF property_type \in {None, ""} THEN list
    ELSE SelectSeq(list, LAMBDA q : q.property_type = property_type)

by_min_price(list, min_price) ==
    IF min_price = NoPrice THEN list
    ELSE SelectSeq(list, LAMBDA q : q.price >= min_price[1])

by_max_price(list, max_price) ==
    IF max_price = NoPrice THEN list
    ELSE SelectSeq(list, LAMBDA q : q.price <= max_price[1])

by_location(list, location) ==
    IF location \in {None, ""} THEN list
    ELSE SelectSeq(list, LAMBDA q : str_in(str_lower(location), str_lower(q.location)))

\* mutation of get_properties: the page is cut out before the filters run
get_properties_page_first(db, skip, limit, property_type, min_price, max_price, location) ==
    by_location(by_max_price(by_min_price(by_type(
        slice(values(db), skip, limit), property_type), min_price), max_price), location)

get_properties(db, skip, limit, property_type, min_price, max_price, location) ==
    slice(by_location(by_max_price(by_min_price(by_type(
              values(db), property_type), min_price), max_price), location),
          skip, limit)

storeFrame == UNCHANGED <<authVars, procs, fbVars, api_result, api_visible,
                          tok_result, pw_result, documents, issued>>

StoreRes(op, id, ret, ok) == [op |-> op, id |-> id, ret |-> ret, ok |-> ok]

\* position of the key in the dict, 0 when the key is not in it
key_index(db, key) ==
    IF \E i \in 1..Len(db) : db[i].key = key
    THEN CHOOSE i \in 1..Len(db) : db[i].key = key
    ELSE 0

\* memory_db.create_property: a fresh id and both timestamps are written
\* into the record, which is stored under the id
create_property(property_data) ==
    /\ Len(properties_db) < MaxProperties
    /\ uuids < Len(Uuids)
    /\ properties_db' = Append(properties_db,
           [key |-> Uuids[uuids + 1],
            value |-> [id |-> Uuids[uuids + 1], price |-> property_data.price,
                       property_type |-> property_data.property_type,
                       location |-> property_data.location,
                       created_at |-> now, updated_at |-> now]])
    /\ uuids' = uuids + 1
    /\ list_result' = NoListResult
    /\ store_result' = StoreRes("create_property", Uuids[uuids + 1],
                                <<properties_db'[Len(properties_db')].value>>, TRUE)
    /\ UNCHANGED mock_properties
    /\ storeFrame

\* a call of memory_db.get_properties
list_properties(skip, limit, property_type, min_price, max_price, location) ==
    /\ list_result' = [called |-> TRUE, skip |-> skip, limit |-> limit,
                       property_type |-> property_type, min_price |-> min_price,
                       max_price |-> max_price, location |-> location,
                       ret |-> get_properties(properties_db, skip, limit, property_type,
                                              min_price, max_price, location)]
    /\ UNCHANGED <<properties_db, uuids, store_result, mock_properties>>
    /\ storeFrame

\* memory_db.get_property: dict.get
get_property(property_id) ==
    LET i == key_index(properties_db, property_id) IN
    /\ store_result' = StoreRes("get_property", property_id,
                                IF i = 0 THEN <<>> ELSE <<properties_db[i].value>>,
                                i # 0)
    /\ UNCHANGED <<properties_db, uuids, list_result, mock_properties>>
    /\ storeFrame

\* dict.update(property_data) on the stored record, after updated_at was put
\* into property_data; <<>> is a key that property_data does not have
\* (updated_keeps_stamp is the mutation that does not refresh updated_at)
updated_keeps_stamp(value, property_data) ==
    [value EXCEPT
       !.id = IF property_data.id = <<>> THEN @ ELSE property_data.id[1],
       !.price = IF property_data.price = <<>> THEN @ ELSE property_data.price[1]]

updated(value, property_data) ==
    [value EXCEPT
       !.id = IF property_data.id = <<>> THEN @ ELSE property_data.id[1],
       !.price = IF property_data.price = <<>> THEN @ ELSE property_data.price[1],
       !.updated_at = now]

\* memory_db.update_property
update_property(property_id, property_data) ==
    LET i == key_index(properties_db, property_id) IN
    /\ IF i = 0
       THEN /\ store_result' = StoreRes("update_property", property_id, <<>>, FALSE)
            /\ UNCHANGED properties_db
       ELSE /\ properties_db' = [properties_db EXCEPT
                                   ![i].value = updated(@, property_data)]
            /\ store_result' = StoreRes("update_property", property_id,
                                        <<properties_db'[i].value>>, TRUE)
    /\ list_result' = NoListResult
    /\ UNCHANGED <<uuids, mock_properties>>
    /\ storeFrame

\* memory_db.delete_property
delete_property(property_id) ==
    LET i == key_index(properties_db, property_id) IN
    /\ IF i = 0
       THEN /\ store_result' = StoreRes("delete_property", property_id, <<>>, FALSE)
            /\ UNCHANGED properties_db
       ELSE /\ properties_db' = remove_at(properties_db, i)
            /\ store_result' = StoreRes("delete_property", property_id, <<>>, TRUE)
    /\ list_result' = NoListResult
    /\ UNCHANGED <<uuids, mock_properties>>
    /\ storeFrame

\* the sample data not stored yet
NotStored == {q \in SampleProperties :
                 \A i \in 1..Len(properties_db) : properties_db[i].value.price # q.price}

NextList ==
    \/ \E property_data \in NotStored : create_property(property_data)
    \/ \E skip \in 0..MaxSkip, limit \in Limits, property_type \in TypeFilters,
          min_price \in MinPrices, max_price \in MaxPrices,
          location \in LocationFilters :
          list_properties(skip, limit, property_type, min_price, max_price, location)

SpecList == Init /\ [][NextList]_vars
----------------------------------------------------------------------------
(* app/services/firestore.py: the methods of one FirestoreService instance *)
(* in mock mode, called on the instance itself                            *)

\* FirestoreService.create_property, mock branch, for a property_data
\* without an 'id' key (what PropertyCreate.dict() gives): the id is
\* str(len(self.mock_properties) + 1) and no timestamp is written
mock_create_property(property_data) ==
    LET new == [id |-> IdStr[Len(mock_properties) + 1],
                title |-> property_data.title, price |-> property_data.price,
                created_at |-> NoStamp, updated_at |-> NoStamp]
    IN /\ Len(mock_properties) < MaxMock
       /\ mock_properties' = Append(mock_properties, new)
       /\ store_result' = StoreRes("mock_create_property", new.id, <<new>>, TRUE)
       /\ UNCHANGED <<properties_db, uuids, list_result>>
       /\ storeFrame

\* FirestoreService.get_property_by_id, mock branch
mock_get_property_by_id(property_id) ==
    LET i == index_of(mock_properties, property_id) IN
    /\ store_result' = StoreRes("mock_get_property_by_id", property_id,
                                IF i = 0 THEN <<>> ELSE <<mock_properties[i]>>, i # 0)
    /\ UNCHANGED <<mock_properties, properties_db, uuids, list_result>>
    /\ storeFrame

\* FirestoreService.update_property, mock branch
mock_update_property(property_id, property_data) ==
    LET i == index_of(mock_properties, property_id) IN
    /\ IF i = 0
       THEN /\ store_result' = StoreRes("mock_update_property", property_id, <<>>, FALSE)
            /\ UNCHANGED mock_properties
       ELSE /\ mock_properties' = [mock_properties EXCEPT
                                     ![i] = merge(@, property_id, property_data)]
            /\ store_result' = StoreRes("mock_update_property", property_id,
                                        <<mock_properties'[i]>>, TRUE)
    /\ UNCHANGED <<properties_db, uuids, list_result>>
    /\ storeFrame

\* FirestoreService.delete_property, mock branch
mock_delete_property(property_id) ==
    LET i == index_of(mock_properties, property_id) IN
    /\ IF i = 0
       THEN /\ store_result' = StoreRes("mock_delete_property", property_id, <<>>, FALSE)
            /\ UNCHANGED mock_properties
       ELSE /\ mock_properties' = remove_at(mock_properties, i)
            /\ store_result' = StoreRes("mock_delete_property", property_id, <<>>, TRUE)
    /\ UNCHANGED <<properties_db, uuids, list_result>>
    /\ storeFrame

\* the inputs of the store calls
StoreSamples == {q \in SampleProperties : q.price = 450000}
StoreKeys == {"u1", "u2"}
StorePatches == [id : {<<>>, <<"u1">>}, price : {<<>>, <<999>>}]
MockCreates == [title : {"Loft"}, price : {300000}]
MockIds == {"3", "zz"}          \* the ids looked up and updated
MockDeleteIds == {"1", "zz"}    \* the ids deleted
MockPatches == {[title |-> <<>>, price |-> <<310000>>],
                [title |-> <<"Barn">>, price |-> <<>>]}

\* memory_db.create_property while the store and the number of ids
\* generated stay within the bound
store_create_property(property_data) ==
    /\ Len(properties_db) < MaxStored
    /\ uuids < MaxStored
    /\ create_property(property_data)

NextStore ==
    \/ Tick
    \/ \E property_data \in StoreSamples : store_create_property(property_data)
    \/ \E property_id \in StoreKeys : get_property(property_id)
    \/ \E property_id \in StoreKeys, property_data \in StorePatches :
          update_property(property_id, property_data)
    \/ \E property_id \in StoreKeys : delete_property(property_id)
    \/ \E property_data \in MockCreates : mock_create_property(property_data)
    \/ \E property_id \in MockIds : mock_get_property_by_id(property_id)
    \/ \E property_id \in MockIds, property_data \in MockPatches :
          mock_update_property(property_id, property_data)
    \/ \E property_id \in MockDeleteIds : mock_delete_property(property_id)

SpecStore == Init /\ [][NextStore]_vars
----------------------------------------------------------------------------
(* scripts/manage_users.py and app/db/init_db.py, called in the process    *)
(* that holds memory_db                                                     *)

\* is_using_mock_db(): get_firebase_app() == "mock_app"
is_using_mock_db(ok) ==
    (IF firebase_app = None THEN resolve(firebase_app, env, ok) ELSE firebase_app)
       = MOCK_APP

\* what a command leaves alone besides users_db, result and the resolved app
scriptFrame ==
    UNCHANGED <<invitations_db, now, tokens, accepted, procs, env, services,
                fb_result, auxVars>>

\* the commands resolve the backend first; on the live backend they work on
\* the 'users' collection of Firestore and leave memory_db alone
script_frame(ok) ==
    /\ firebase_app' = IF firebase_app = None
                       THEN resolve(firebase_app, env, ok) ELSE firebase_app
    /\ scriptFrame

\* the dict of a call of update_user: None is a key the dict does not have
Updates(full_name, email, hashed_password, role) ==
    [full_name |-> full_name, email |-> email,
     hashed_password |-> hashed_password, role |-> role]

\* a call of memory_db.update_user(email, updates)
store_update_user(email, updates) ==
    /\ users_db' = update_user(users_db, email, updates)
    /\ result' = Res("update_user",
                     IF get_user_by_email(email) = 0 THEN "absent" ELSE "ok",
                     None, email, updates.role, get_user_by_email(email))
    /\ UNCHANGED firebase_app
    /\ scriptFrame

\* manage_users.change_user_role(email, role)
change_user_role(email, role, ok) ==
    /\ script_frame(ok)
    /\ IF ~is_using_mock_db(ok)
       THEN /\ result' = Res("change_user_role", "firestore", None, email, role, 0)
            /\ UNCHANGED users_db
       ELSE IF get_user_by_email(email) = 0
       THEN /\ result' = Res("change_user_role", "not_found", None, email, role, 0)
            /\ UNCHANGED users_db
       ELSE IF str_lower(role) \notin UserRole
       THEN /\ result' = Res("change_user_role", "invalid_role", None, email, role, 0)
            /\ UNCHANGED users_db
       ELSE \* update_user returns the user it found, which is truthy
            /\ users_db' = update_user(users_db, email,
                               Updates(None, None, NoHash, str_lower(role)))
            /\ result' = Res("change_user_role", "ok", None, email, str_lower(role),
                             get_user_by_email(email))

\* manage_users.reset_password(email, new_password)
reset_password(email, new_password, salt, ok) ==
    /\ script_frame(ok)
    /\ IF ~is_using_mock_db(ok)
       THEN /\ result' = Res("reset_password", "firestore", None, email, None, 0)
            /\ UNCHANGED users_db
       ELSE IF get_user_by_email(email) = 0
       THEN /\ result' = Res("reset_password", "not_found", None, email, None, 0)
            /\ UNCHANGED users_db
       ELSE /\ users_db' = update_user(users_db, email,
                               Updates(None, None,
                                       get_password_hash(new_password, salt), None))
            /\ result' = Res("reset_password", "ok", None, email, None,
                             get_user_by_email(email))

\* manage_users.create_new_user(email, full_name, password, role)
create_new_user(email, full_name, password, role, salt, ok) ==
    /\ script_frame(ok)
    /\ IF ~is_using_mock_db(ok)
       THEN /\ result' = Res("create_new_user", "firestore", None, email, role, 0)
            /\ UNCHANGED users_db
       ELSE IF get_user_by_email(email) # 0
       THEN /\ result' = Res("create_new_user", "email_taken", None, email, role, 0)
            /\ UNCHANGED users_db
       ELSE IF str_lower(role) \notin UserRole
       THEN /\ result' = Res("create_new_user", "invalid_role", None, email, role, 0)
            /\ UNCHANGED users_db
       ELSE /\ Len(users_db) < MaxUsers
            /\ users_db' = create_user(users_db, email, full_name,
                                       get_password_hash(password, salt),
                                       str_lower(role))
            /\ result' = Res("create_new_user", "ok", None, email, str_lower(role),
                             Len(users_db) + 1)

\* init_db.test_properties
test_properties ==
    << [price |-> 500000, property_type |-> "apartment", location |-> "Downtown"],
       [price |-> 750000, property_type |-> "house", location |-> "Suburbs"] >>

\* the record memory_db.create_property stores for property_data under the
\* n-th generated id
stored_property(property_data, n) ==
    [key |-> Uuids[n],
     value |-> [id |-> Uuids[n], price |-> property_data.price,
                property_type |-> property_data.property_type,
                location |-> property_data.location,
                created_at |-> now, updated_at |-> now]]

\* init_db.init_db(): create_user for the admin, then create_property for
\* each test property
init_db(salt) ==
    /\ Len(users_db) < MaxUsers
    /\ Len(properties_db) + Len(test_properties) <= MaxProperties
    /\ uuids + Len(test_properties) <= Len(Uuids)
    /\ users_db' = create_user(users_db, admin_email, "Admin User",
                               get_password_hash(admin_password, salt), ADMIN)
    /\ properties_db' = properties_db \o
                           << stored_property(test_properties[1], uuids + 1),
                              stored_property(test_properties[2], uuids + 2) >>
    /\ uuids' = uuids + Len(test_properties)
    /\ list_result' = NoListResult
    /\ store_result' = StoreRes("create_property", Uuids[uuids + 2],
                                <<stored_property(test_properties[2], uuids + 2).value>>,
                                TRUE)
    /\ result' = Res("init_db", "ok", None, admin_email, ADMIN, Len(users_db) + 1)
    /\ UNCHANGED <<invitations_db, now, tokens, accepted, procs, fbVars,
                   api_result, api_visible, tok_result, pw_result, documents, issued,
                   mock_properties>>

\* the inputs of the commands
RoleArgs == {"admin", "client", "Admin", "owner"}
ScriptEmails == {admin_email, "a@b.com"}
UserUpdates == [full_name : {None, "", "Renamed"}, email : {None},
                hashed_password : {NoHash}, role : {None, CLIENT}]

NextScripts ==
    \/ \E email \in ScriptEmails, updates \in UserUpdates :
          store_update_user(email, updates)
    \/ \E email \in ScriptEmails, role \in RoleArgs, ok \in BOOLEAN :
          change_user_role(email, role, ok)
    \/ \E email \in ScriptEmails, new_password \in NewPasswords, salt \in Salts,
          ok \in BOOLEAN : reset_password(email, new_password, salt, ok)
    \/ \E email \in ScriptEmails, full_name \in Names, password \in NewPasswords,
          role \in RoleArgs, salt \in Salts, ok \in BOOLEAN :
          create_new_user(email, full_name, password, role, salt, ok)
    \/ \E salt \in Salts : init_db(salt)

SpecScripts == Init /\ [][NextScripts]_vars
----------------------------------------------------------------------------
(* register and accept_invitation handled concurrently: the handlers hold   *)
(* no lock, so each is split at its calls into memory_db, between which     *)
(* the steps of another request can run                                     *)

ConcEmails == {"a@b.com", "c@d.com"}

Done(p, outcome, user) ==
    procs' = [procs EXCEPT ![p].pc = "done", ![p].outcome = outcome, ![p].user = user]

\* register, lines 57-62
reg_check(p, user) ==
    /\ procs[p].pc = "idle"
    /\ procs' = [procs EXCEPT ![p] =
          [NoProc EXCEPT !.op = "register", !.email = user.email, !.role = user.role,
                         !.pc = IF get_user_by_email(user.email) # 0
                                THEN "done" ELSE "reg_create",
                         !.outcome = IF get_user_by_email(user.email) # 0
                                     THEN "email_taken" ELSE "none"]]
    /\ UNCHANGED <<authVars, fbVars, auxVars>>

\* register, lines 63-70
reg_create(p, salt) ==
    /\ procs[p].pc = "reg_create"
    /\ Len(users_db) < MaxUsers
    /\ users_db' = create_user(users_db, procs[p].email, "New User",
                               get_password_hash("pw1", salt), procs[p].role)
    /\ Done(p, "ok", Len(users_db) + 1)
    /\ UNCHANGED <<invitations_db, now, tokens, result, accepted, fbVars, auxVars>>

\* accept_invitation, lines 96-106
acc_lookup(p, token, user) ==
    LET inv == get_invitation_by_token(token)
        started == [NoProc EXCEPT !.op = "accept_invitation", !.token = token,
                                  !.email = user.email, !.role = user.role,
                                  !.inv = inv]
    IN
    /\ procs[p].pc = "idle"
    /\ procs' = [procs EXCEPT ![p] =
          IF inv = 0 \/ invitations_db[inv].is_used
          THEN [started EXCEPT !.pc = "done", !.outcome = "invalid_or_used"]
          ELSE IF expiry_check(invitations_db[inv]) # "ok"
          THEN [started EXCEPT !.pc = "done",
                               !.outcome = expiry_check(invitations_db[inv])]
          ELSE [started EXCEPT !.pc = "acc_check_email"]]
    /\ UNCHANGED <<authVars, fbVars, auxVars>>

\* accept_invitation, lines 108-113
acc_check_email(p) ==
    /\ procs[p].pc = "acc_check_email"
    /\ IF get_user_by_email(procs[p].email) # 0
       THEN Done(p, "email_taken", 0)
       ELSE procs' = [procs EXCEPT ![p].pc = "acc_create"]
    /\ UNCHANGED <<authVars, fbVars, auxVars>>

\* accept_invitation, lines 115-121
acc_create(p, salt) ==
    /\ procs[p].pc = "acc_create"
    /\ Len(users_db) < MaxUsers
    /\ users_db' = create_user(users_db, procs[p].email, "New User",
                               get_password_hash("pw1", salt),
                               invitations_db[procs[p].inv].role)
    /\ procs' = [procs EXCEPT ![p].pc = "acc_mark", ![p].user = Len(users_db) + 1]
    /\ UNCHANGED <<invitations_db, now, tokens, result, accepted, fbVars, auxVars>>

\* accept_invitation, lines 123-124
acc_mark(p) ==
    /\ procs[p].pc = "acc_mark"
    /\ invitations_db' = mark_invitation_as_used(invitations_db, procs[p].token)
    /\ accepted' = accepted \cup {procs[p].token}
    /\ Done(p, "ok", procs[p].user)
    /\ UNCHANGED <<users_db, now, tokens, result, fbVars, auxVars>>

NextConc ==
    \/ \E email \in InviteeEmails, role \in UserRole, expires_at \in ExpiryTimes :
          create_invitation(email, role, expires_at)
    \/ \E p \in Procs, user \in UserCreate(ConcEmails) : reg_check(p, user)
    \/ \E p \in Procs, salt \in Salts : reg_create(p, salt)
    \/ \E p \in Procs, i \in 1..Len(InvTokens), user \in UserCreate(ConcEmails) :
          acc_lookup(p, InvTokens[i], user)
    \/ \E p \in Procs : acc_check_email(p)
    \/ \E p \in Procs, salt \in Salts : acc_create(p, salt)
    \/ \E p \in Procs : acc_mark(p)

SpecConc == Init /\ [][NextConc]_vars
----------------------------------------------------------------------------
(* Properties *)

AcceptInputs == {InvTokens[i] : i \in 1..Len(InvTokens)} \X UserCreate(Emails) \X Salts

\* C1: email uniqueness. After any sequence of register, accept-invitation
\* and update-profile calls executed one at a time, no two distinct records
\* of users_db have the same email.
C1_EmailUnique ==
    \A i, j \in 1..Len(users_db) :
        i # j => users_db[i].email # users_db[j].email

\* three accounts, one of them from an invitation, the first one moved to
\* another email by a profile update, and a further update to a taken email
\* has just been refused
C1_Witness ==
    /\ Len(users_db) = 3
    /\ accepted # {}
    /\ users_db[1].email # admin_email
    /\ result.op = "update_profile" /\ result.outcome = "email_taken"

\* C2: invitation tokens are single-use. Once accept-invitation has succeeded
\* for token t, every later accept-invitation call with t fails with the
\* invalid-or-used error and creates no user, whatever the payload; no
\* invitation record is deleted and no is_used flag returns to false.
C2_SingleUse ==
    [][ /\ \A a \in AcceptInputs :
              (a[1] \in accepted /\ accept_invitation(a[1], a[2], a[3]))
              => /\ result'.outcome = "invalid_or_used"
                 /\ users_db' = users_db
        /\ Len(invitations_db') >= Len(invitations_db)
        /\ \A i \in 1..Len(invitations_db) :
              /\ invitations_db'[i].token = invitations_db[i].token
              /\ invitations_db[i].is_used => invitations_db'[i].is_used
        /\ \A t \in accepted' :
              /\ get_invitation_by_token_in(invitations_db', t) # 0
              /\ invitations_db'[get_invitation_by_token_in(invitations_db', t)].is_used
      ]_vars

\* a second accept with an accepted token has just been refused, with an
\* email that no user has
C2_Witness ==
    /\ result.op = "accept_invitation"
    /\ result.outcome = "invalid_or_used"
    /\ result.token \in accepted
    /\ \E e \in Emails : get_user_by_email(e) = 0

\* some invitation is unused and its expiry is set and has passed
UnusedExpired(token) ==
    LET inv == get_invitation_by_token(token) IN
    /\ inv # 0
    /\ ~invitations_db[inv].is_used
    /\ invitations_db[inv].expires_at # NoExpiry
    /\ invitations_db[inv].expires_at[1] < now

\* some invitation is unused and its expiry is set and still in the future
UnusedNotExpired(token) ==
    LET inv == get_invitation_by_token(token) IN
    /\ inv # 0
    /\ ~invitations_db[inv].is_used
    /\ invitations_db[inv].expires_at # NoExpiry
    /\ invitations_db[inv].expires_at[1] > now

\* C3: accepting an invitation that is unused but whose expiry is set and
\* has passed always fails with the expired error, also when a user with
\* the submitted email already exists, and neither store is changed.
C3_ExpiredBeforeEmailCheck ==
    [][ \A a \in AcceptInputs :
           (UnusedExpired(a[1]) /\ accept_invitation(a[1], a[2], a[3]))
           => /\ result'.outcome = "expired"
              /\ users_db' = users_db
              /\ invitations_db' = invitations_db
      ]_vars

\* C4: accepting an unused invitation whose expiry is set and still in the
\* future, with an email that no user has, succeeds: exactly one user is
\* created with the submitted email, is_used becomes true and the new user
\* is returned.
C4_AcceptBeforeExpiry ==
    [][ \A a \in AcceptInputs :
           (/\ UnusedNotExpired(a[1])
            /\ get_user_by_email(a[2].email) = 0
            /\ accept_invitation(a[1], a[2], a[3]))
           => /\ result'.outcome = "ok"
              /\ Len(users_db') = Len(users_db) + 1
              /\ users_db'[Len(users_db')].email = a[2].email
              /\ result'.user = Len(users_db')
              /\ invitations_db'[get_invitation_by_token(a[1])].is_used
      ]_vars

\* C5: a successful accept-invitation creates the user with the role granted
\* by the invitation, whatever the role of the payload and whether or not the
\* submitted email is the invitee email; a second accept with the same token
\* then fails with the invalid-or-used error.
C5_RoleOfInvitation ==
    [][ \A a \in AcceptInputs :
           accept_invitation(a[1], a[2], a[3]) =>
              IF a[1] \in accepted
              THEN /\ result'.outcome = "invalid_or_used"
                   /\ users_db' = users_db
              ELSE /\ result'.outcome = "ok" =>
                        /\ Len(users_db') = Len(users_db) + 1
                        /\ result'.user = Len(users_db')
                        /\ users_db'[result'.user].email = a[2].email
                        /\ users_db'[result'.user].role =
                              invitations_db[get_invitation_by_token(a[1])].role
                        /\ a[1] \in accepted'
                   /\ result'.outcome # "ok" => users_db' = users_db
      ]_vars

\* an accept has just created an account whose role is the invitation's and
\* not the payload's, under an email that is not the invitee's
C5_Witness ==
    /\ result.op = "accept_invitation" /\ result.outcome = "ok"
    /\ users_db[result.user].role # result.role
    /\ users_db[result.user].role =
          invitations_db[get_invitation_by_token(result.token)].role
    /\ users_db[result.user].email #
          invitations_db[get_invitation_by_token(result.token)].email

\* C6: given two concurrent register calls with the same email, their
\* find-by-email check and their create step interleaved in any order, at
\* most one of them succeeds and at most one user with that email exists
\* afterwards.
C6_AtMostOneRegisterSucceeds ==
    \A p, q \in Procs :
        (/\ p # q
         /\ procs[p].op = "register" /\ procs[q].op = "register"
         /\ procs[p].email = procs[q].email
         /\ procs[p].pc = "done" /\ procs[q].pc = "done")
        => /\ ~(procs[p].outcome = "ok" /\ procs[q].outcome = "ok")
           /\ Cardinality({i \in 1..Len(users_db) :
                              users_db[i].email = procs[p].email}) <= 1

\* C7: an invitation token is consumed exactly once: under any interleaving
\* of concurrent accept-invitation calls carrying the same token with
\* different submitted emails, at most one call succeeds and at most one
\* user is created from that invitation.
C7_TokenConsumedOnce ==
    \A p, q \in Procs :
        (/\ p # q
         /\ procs[p].op = "accept_invitation" /\ procs[q].op = "accept_invitation"
         /\ procs[p].token = procs[q].token
         /\ procs[p].email # procs[q].email)
        => /\ ~(procs[p].outcome = "ok" /\ procs[q].outcome = "ok")
           /\ ~(procs[p].user # 0 /\ procs[q].user # 0)

\* the force-mock flag is set (any letter case of true, 1 or yes)
FlagSet(e) == e.flag \in {"true", "TRUE", "1", "yes"}

\* some required configuration key is missing or empty
KeyMissing(e) == e.unset \cup e.empty # {}

\* C8: backend resolution ends in MOCK when the force-mock flag is set, or a
\* required configuration key is missing or empty, or constructing the live
\* backend raises; it ends in LIVE only when the flag is not set, all keys
\* are present and non-empty and construction succeeds; the caller gets one
\* of the two states back, never an error.
C8_Resolution ==
    [][ \A ok \in BOOLEAN :
           (firebase_app = None /\ initialize_firebase(ok)) =>
              /\ firebase_app' \in {MOCK_APP, LIVE_APP}
              /\ fb_result'.ret = firebase_app'
              /\ firebase_app' = MOCK_APP <=>
                    (FlagSet(env) \/ KeyMissing(env) \/ ~ok)
              /\ firebase_app' = LIVE_APP <=>
                    (~FlagSet(env) /\ ~KeyMissing(env) /\ ok)
      ]_vars

\* a resolution has just ended in MOCK although the flag is off and only
\* one key is set to the empty string
C8_Witness ==
    /\ fb_result.op = "initialize_firebase"
    /\ fb_result.ret = MOCK_APP
    /\ firebase_app = MOCK_APP
    /\ ~FlagSet(env)
    /\ env.unset = {} /\ Cardinality(env.empty) = 1

\* C9: resolution happens at most once between resets: once resolved,
\* every later initialize_firebase / get_firebase_app call returns the same
\* state whatever the configuration has become and whether or not a
\* construction would succeed; only reset_firebase_app returns the provider
\* to the unresolved state, and the next call then resolves again.
C9_ResolvedOnce ==
    [][ /\ \A ok \in BOOLEAN :
             (initialize_firebase(ok) \/ get_firebase_app(ok)) =>
                IF firebase_app # None
                THEN firebase_app' = firebase_app /\ fb_result'.ret = firebase_app
                ELSE firebase_app' # None /\ fb_result'.ret = firebase_app'
        /\ (firebase_app # None /\ firebase_app' # firebase_app) =>
              (firebase_app' = None /\ reset_firebase_app)
        /\ reset_firebase_app => firebase_app' = None
      ]_vars

\* the provider is LIVE, the configuration has since been switched to
\* force-mock, and an initialize_firebase call has just returned LIVE
C9_Witness ==
    /\ firebase_app = LIVE_APP
    /\ FlagSet(env)
    /\ fb_result.op = "initialize_firebase"
    /\ fb_result.ret = LIVE_APP

\* C10: between resets every FirestoreService instance operates in the mode
\* the provider resolved: is_mock is true exactly when the resolved state is
\* MOCK, so no instance targets the mock store while the provider is LIVE.
C10_OneModePerProcess ==
    \A i \in 1..Len(services) :
        services[i].current =>
            (services[i].is_mock <=> firebase_app = MOCK_APP)
\* C11: in mock mode the property store lives as long as the process: once a
\* create has returned P, every later getById(P.id) returns P and every later
\* listing contains P until P is deleted, and an update or a delete made by
\* one request is what every later request sees.
C11_MockStoreIsProcessLifetime ==
    [][ firebase_app = MOCK_APP =>
          /\ \A id \in PropertyIds, ok, client_ok, backend_ok \in BOOLEAN :
                api_get_property(id, ok, client_ok, backend_ok) =>
                   \A v \in api_visible :
                      v[1] = id =>
                         IF v[2] = NoProperty
                         THEN api_result'.outcome = "not_found"
                         ELSE /\ api_result'.outcome = "ok"
                              /\ api_result'.ret = v[2]
          /\ \A ok, client_ok, backend_ok \in BOOLEAN :
                api_get_properties(ok, client_ok, backend_ok) =>
                   \A v \in api_visible :
                      IF v[2] = NoProperty
                      THEN \A i \in 1..Len(api_result'.items) :
                              api_result'.items[i].id # v[1]
                      ELSE \E i \in 1..Len(api_result'.items) :
                              api_result'.items[i] = v[2]
      ]_vars
\* the expiry of a call as the specification defines it: issue time plus the
\* ttl, the default window when no ttl was given
ExpiryOf(call) ==
    call.issued_at + (IF call.expires_delta = NoDelta THEN ACCESS_TOKEN_EXPIRE_MINUTES
                      ELSE call.expires_delta[1])

\* C12: for every token produced by create_access_token(claims, ttl),
\* verify_token returns the subject and role of the input at every time
\* before issue time + ttl and returns invalid at and after it; a token whose
\* signature does not verify yields invalid.
C12_VerifyRoundTrip ==
    tok_result.op = "verify_token" =>
       /\ ~tok_result.token.signed => tok_result.payload = NoPayload
       /\ \A call \in issued :
             (call.token = tok_result.token /\ call.expires_delta # NoDelta) =>
                IF now < ExpiryOf(call)
                THEN /\ tok_result.payload.sub = call.data.sub
                     /\ tok_result.payload.role = call.data.role
                ELSE tok_result.payload = NoPayload

\* C13: without a ttl the expiry of the token is the issue time plus the
\* default window of 30 minutes; with a ttl it is the issue time plus the ttl.
C13_DefaultWindow ==
    tok_result.op = "create_access_token" =>
       tok_result.token.exp =
          tok_result.issued_at +
             (IF tok_result.expires_delta = NoDelta THEN ACCESS_TOKEN_EXPIRE_MINUTES
              ELSE tok_result.expires_delta[1])
\* C14: for every password p, verify_password(p, get_password_hash(p)) is
\* true, and for every password q different from p,
\* verify_password(q, get_password_hash(p)) is false.
C14_HashThenVerify ==
    pw_result.op = "verify_password" =>
       (pw_result.ret <=> pw_result.candidate = pw_result.password)
\* the token verifies: its signature is good and it has not expired
Verifies(token) == token.signed /\ ~(token.exp < now)

\* the users whose stored email is that subject
Holders(sub) == {i \in 1..Len(users_db) : sub # None /\ users_db[i].email = sub}

\* the password is the one the stored hash was computed from
Matches(password, hashed_password) ==
    hashed_password = get_password_hash(password, hashed_password.salt)

\* C15: require-admin, the guard of the invite operation, returns the user
\* when the bearer token resolves to an existing user whose role is admin,
\* fails with forbidden when it resolves to a user who is not admin, and
\* fails with unauthorized when the token is invalid or resolves to no user;
\* an invitation is created when, and only when, the caller presents a valid
\* token of an admin.
C15_RequireAdmin ==
    [][ \A invitation \in InvitationCreate, token \in tokens \cup {GARBAGE} :
           invite_user(invitation, token) =>
              IF ~Verifies(token) \/ Holders(token.sub) = {}
              THEN /\ result'.outcome = "unauthorized"
                   /\ invitations_db' = invitations_db
              ELSE IF \E i \in Holders(token.sub) : users_db[i].role = ADMIN
              THEN /\ result'.outcome = "ok"
                   /\ result'.user \in Holders(token.sub)
                   /\ Len(invitations_db') = Len(invitations_db) + 1
                   /\ invitations_db'[Len(invitations_db')].email = invitation.email
                   /\ invitations_db'[Len(invitations_db')].role = invitation.role
              ELSE /\ result'.outcome = "forbidden"
                   /\ invitations_db' = invitations_db
      ]_vars

\* C16: resolve-current-user returns a user only when the token verifies,
\* carries a subject and a user with exactly that email is in the store at
\* the time of the call; in every other case the outcome is unauthorized,
\* and no error escapes.
C16_ResolveCurrentUser ==
    [][ \A token \in tokens \cup {GARBAGE, EXPIRED, NOSUB} :
           read_users_me(token) =>
              /\ result'.outcome \in {"ok", "unauthorized"}
              /\ result'.outcome = "ok" =>
                    /\ Verifies(token)
                    /\ token.sub # None
                    /\ result'.user \in Holders(token.sub)
              /\ (~Verifies(token) \/ token.sub = None \/ Holders(token.sub) = {})
                    => (result'.outcome = "unauthorized" /\ result'.user = 0)
              /\ users_db' = users_db
      ]_vars

\* the token of an account whose email has since been changed has just been
\* turned down, while a token that expired cannot have been accepted
C16_Witness ==
    /\ result.op = "read_users_me" /\ result.outcome = "unauthorized"
    /\ \E t \in tokens : Verifies(t) /\ t.sub # None /\ Holders(t.sub) = {}
    /\ ~Verifies(EXPIRED) /\ Holders(EXPIRED.sub) = {}

\* C17: login issues a token if and only if a user with the submitted email
\* exists and the submitted password verifies against that user's stored
\* hash; otherwise it fails with unauthorized and issues nothing. An issued
\* token carries the user's email as subject and the user's stored role,
\* and login never modifies the user store.
C17_Login ==
    [][ \A username \in Emails, password \in Passwords :
           login(username, password) =>
              /\ users_db' = users_db
              /\ IF \E i \in Holders(username) :
                        Matches(password, users_db[i].hashed_password)
                 THEN /\ result'.outcome = "ok"
                      /\ \E t \in tokens' :
                            /\ tokens' = tokens \cup {t}
                            /\ t.signed
                            /\ t.sub = username
                            /\ t.role = users_db[result'.user].role
                            /\ result'.user \in Holders(username)
                 ELSE /\ result'.outcome = "unauthorized"
                      /\ tokens' = tokens
      ]_vars

\* a login has just been turned down for an existing account because of the
\* password, and a login has succeeded before
C17_Witness ==
    /\ result.op = "login" /\ result.outcome = "unauthorized"
    /\ tokens # {}
    /\ \A e \in Emails : Holders(e) # {}

\* C18: update-profile changes a stored password hash only when the request
\* supplies a current password that verifies against the hash stored at that
\* moment; when a new password is requested and the current password is
\* missing or does not verify, the call fails and the user's record is left
\* unchanged.
C18_PasswordChange ==
    [][ \A update_data \in UpdateProfileRequest(Emails),
           token \in tokens \cup {GARBAGE}, salt \in Salts :
           update_profile(update_data, token, salt) =>
              /\ \A i \in 1..Len(users_db) :
                    users_db'[i].hashed_password # users_db[i].hashed_password =>
                       /\ update_data.current_password # None
                       /\ Matches(update_data.current_password,
                                  users_db[i].hashed_password)
              /\ \A i \in Holders(token.sub) :
                    (/\ Verifies(token)
                     /\ update_data.new_password # None
                     /\ \/ update_data.current_password = None
                        \/ ~Matches(update_data.current_password,
                                    users_db[i].hashed_password))
                    => /\ result'.outcome \in {"current_password_required",
                                                "incorrect_current_password",
                                                "email_taken"}
                       /\ users_db' = users_db
      ]_vars

\* the first account's password has been changed by an update, and a further
\* change that gave the old password as the current one has just been refused
C18_Witness ==
    /\ result.op = "update_profile"
    /\ result.outcome = "incorrect_current_password"
    /\ result.user = 1
    /\ Matches("pw1", users_db[1].hashed_password)

Passes(q, call) ==
    /\ call.property_type # None => q.property_type = call.property_type
    /\ call.min_price # NoPrice => call.min_price[1] <= q.price
    /\ call.max_price # NoPrice => q.price <= call.max_price[1]
    /\ call.location # None =>
          str_in(str_lower(call.location), str_lower(q.location))

\* the positions of the stored properties that pass, and the n-th of them
Passing(call) == {i \in 1..Len(properties_db) : Passes(properties_db[i].value, call)}
NthPassing(call, n) ==
    CHOOSE i \in Passing(call) : Cardinality({j \in Passing(call) : j <= i}) = n

\* C20: PropertyStore.list returns exactly the stored properties that pass
\* every supplied filter, with inclusive price bounds, in insertion order,
\* and paginates after filtering: the result is the slice [skip, skip+limit)
\* of the filtered sequence.
C20_ListFiltersThenPaginates ==
    list_result.called =>
       LET n == Cardinality(Passing(list_result))
           len == IF n - list_result.skip < 0 THEN 0
                  ELSE IF n - list_result.skip < list_result.limit
                  THEN n - list_result.skip
                  ELSE list_result.limit
       IN /\ Len(list_result.ret) = len
          /\ \A k \in 1..len :
                list_result.ret[k] =
                   properties_db[NthPassing(list_result, list_result.skip + k)].value

\* on prices 450000, 500000, 750000, 1200000 the bounds 500000..800000 have
\* just returned the 500000 and the 750000 record, in that order
C20_Witness ==
    /\ Len(properties_db) = 4
    /\ properties_db[1].value.price = 450000
    /\ properties_db[2].value.price = 500000
    /\ properties_db[3].value.price = 750000
    /\ properties_db[4].value.price = 1200000
    /\ list_result.called
    /\ list_result.min_price = <<500000>> /\ list_result.max_price = <<800000>>
    /\ list_result.ret = <<properties_db[2].value, properties_db[3].value>>

\* the property passes the filters when letter case is ignored in the type
\* and in the location
PassesFolded(q, call) ==
    /\ call.property_type # None =>
          str_lower(q.property_type) = str_lower(call.property_type)
    /\ call.min_price # NoPrice => call.min_price[1] <= q.price
    /\ call.max_price # NoPrice => q.price <= call.max_price[1]
    /\ call.location # None =>
          str_in(str_lower(call.location), str_lower(q.location))

PassingFolded(call) ==
    {i \in 1..Len(properties_db) : PassesFolded(properties_db[i].value, call)}

\* C21: the type filter of PropertyStore.list is an exact match compared
\* case-insensitively and the location filter a case-insensitive substring
\* match: a stored property whose type differs from the filter value only in
\* letter case is selected, so when the whole selection fits on the first
\* page every such property is in the returned list.
C21_FiltersIgnoreCase ==
    (/\ list_result.called
     /\ list_result.skip = 0
     /\ Cardinality(PassingFolded(list_result)) <= list_result.limit)
    => \A i \in PassingFolded(list_result) :
          \E k \in 1..Len(list_result.ret) :
             list_result.ret[k] = properties_db[i].value

\* C22: PropertyStore.create always assigns a fresh id: the id given to the
\* new property differs from the id of every property in the store at the
\* time of the call, and created_at and updated_at of the new record are the
\* time of the call. Stated for both stores: memory_db.create_property and
\* the mock branch of FirestoreService.create_property.
C22_CreateAssignsFreshId ==
    [][ /\ (\E property_data \in StoreSamples : create_property(property_data)) =>
              LET new == properties_db'[Len(properties_db')].value
              IN /\ \A i \in 1..Len(properties_db) :
                       /\ properties_db[i].value.id # new.id
                       /\ properties_db[i].key # new.id
                 /\ new.created_at = now /\ new.updated_at = now
        /\ (\E property_data \in MockCreates : mock_create_property(property_data)) =>
              LET new == mock_properties'[Len(mock_properties')]
              IN /\ \A i \in 1..Len(mock_properties) : mock_properties[i].id # new.id
                 /\ new.created_at = <<now>> /\ new.updated_at = <<now>>
      ]_vars

\* C23: PropertyStore.update(id, partialFields) on an existing record sets
\* exactly the supplied fields, leaves every other field of that record and
\* every other record unchanged, and refreshes updated_at; on an id that is
\* not in the store it returns absent and changes nothing. Stated for
\* memory_db.update_property and for the mock branch of
\* FirestoreService.update_property, where the record is the first one
\* with that id.
C23_UpdateIsPartial ==
    [][ /\ \A property_id \in {store_result'.id} \cap StoreKeys,
                 property_data \in StorePatches :
              update_property(property_id, property_data) =>
                 IF \E i \in 1..Len(properties_db) : properties_db[i].key = property_id
                 THEN /\ Len(properties_db') = Len(properties_db)
                      /\ \A i \in 1..Len(properties_db) :
                            LET old == properties_db[i].value
                                new == properties_db'[i].value
                            IN /\ properties_db'[i].key = properties_db[i].key
                               /\ IF properties_db[i].key = property_id
                                  THEN /\ new.id = IF property_data.id = <<>> THEN old.id
                                                   ELSE property_data.id[1]
                                       /\ new.price = IF property_data.price = <<>>
                                                      THEN old.price
                                                      ELSE property_data.price[1]
                                       /\ new.property_type = old.property_type
                                       /\ new.location = old.location
                                       /\ new.created_at = old.created_at
                                       /\ new.updated_at = now
                                       /\ store_result'.ret = <<new>>
                                  ELSE new = old
                 ELSE /\ store_result'.ret = <<>>
                      /\ properties_db' = properties_db
        /\ \A property_id \in {store_result'.id} \cap MockIds,
                 property_data \in MockPatches :
              mock_update_property(property_id, property_data) =>
                 IF \E i \in 1..Len(mock_properties) : mock_properties[i].id = property_id
                 THEN /\ Len(mock_properties') = Len(mock_properties)
                      /\ \A i \in 1..Len(mock_properties) :
                            LET old == mock_properties[i]
                                new == mock_properties'[i]
                            IN IF /\ old.id = property_id
                                  /\ \A j \in 1..(i - 1) :
                                        mock_properties[j].id # property_id
                               THEN /\ new.id = old.id
                                    /\ new.title = IF property_data.title = <<>>
                                                   THEN old.title
                                                   ELSE property_data.title[1]
                                    /\ new.price = IF property_data.price = <<>>
                                                   THEN old.price
                                                   ELSE property_data.price[1]
                                    /\ new.created_at = old.created_at
                                    /\ new.updated_at = <<now>>
                                    /\ store_result'.ret = <<new>>
                               ELSE new = old
                 ELSE /\ store_result'.ret = <<>>
                      /\ mock_properties' = mock_properties
      ]_vars

\* of two stored properties the second has just been given the price 999 at
\* a later time than it was created, and the first has its price as created
C23_Witness ==
    /\ Len(properties_db) = 2
    /\ store_result.op = "update_property" /\ store_result.ok
    /\ store_result.id = properties_db[2].key
    /\ properties_db[2].value.price = 999
    /\ properties_db[2].value.updated_at > properties_db[2].value.created_at
    /\ properties_db[1].value.price # 999
    /\ properties_db[1].value.updated_at = properties_db[1].value.created_at

\* C24: on the live backend, when a backend call fails after resolution
\* during a list, get-by-id, update or delete operation, the caller sees a
\* generic failure (BackendUnavailable), not a successful result and not
\* NotFound.
C24_LiveFailureSurfaces ==
    [][ \A ok, client_ok \in BOOLEAN :
          ~service_is_mock(ok, client_ok) =>
             /\ api_get_properties(ok, client_ok, FALSE)
                   => api_result'.outcome = "internal_error"
             /\ \A property_id \in PropertyIds :
                   /\ api_get_property(property_id, ok, client_ok, FALSE)
                         => api_result'.outcome = "internal_error"
                   /\ api_delete_property(property_id, ok, client_ok, FALSE)
                         => api_result'.outcome = "internal_error"
                   /\ \A update_data \in PropertyUpdate :
                         api_update_property(property_id, update_data, ok, client_ok, FALSE)
                            => api_result'.outcome = "internal_error"
      ]_vars

\* C25: UserStore.update(email, partialFields) is a partial merge: every
\* field supplied with a non-null value is set to that value on the user
\* found by email, every omitted or null field is left unchanged and no
\* other user record changes; when no user has that email it returns absent
\* and the store is unchanged.
C25_UserUpdateIsPartialMerge ==
    [][ \A email \in ScriptEmails, updates \in UserUpdates :
          store_update_user(email, updates) =>
             LET id == get_user_by_email(email) IN
             IF id = 0
             THEN result'.outcome = "absent" /\ users_db' = users_db
             ELSE /\ Len(users_db') = Len(users_db)
                  /\ \A i \in 1..Len(users_db) : i # id => users_db'[i] = users_db[i]
                  /\ users_db'[id].full_name =
                        IF updates.full_name = None THEN users_db[id].full_name
                        ELSE updates.full_name
                  /\ users_db'[id].email =
                        IF updates.email = None THEN users_db[id].email
                        ELSE updates.email
                  /\ users_db'[id].hashed_password =
                        IF updates.hashed_password = NoHash
                        THEN users_db[id].hashed_password
                        ELSE updates.hashed_password
                  /\ users_db'[id].role =
                        IF updates.role = None THEN users_db[id].role
                        ELSE updates.role
      ]_vars

\* C26: whenever change_user_role(email, role) on the mock database reports
\* success for an existing user and a valid role, that user's stored role
\* afterwards equals the requested role.
C26_ChangeRoleChangesRole ==
    (result.op = "change_user_role" /\ result.outcome = "ok")
       => users_db[result.user].role = result.role

\* C27: admin accounts arise only from trusted paths: a user record with
\* role admin is the seeded admin, or was created by accepting an invitation
\* whose granted role is admin. So a step that leaves a record with role
\* admin either found it as an admin or accepted such an invitation; a
\* register call never produces one.
C27_AdminOnlyFromTrustedPaths ==
    [][ \A i \in 1..Len(users_db') :
           users_db'[i].role = ADMIN =>
              \/ i <= Len(users_db) /\ users_db[i].role = ADMIN
              \/ \E token \in accepted' \ accepted :
                    invitations_db[get_invitation_by_token(token)].role = ADMIN
      ]_vars

\* C28: in the in-memory property store every record is stored under its own
\* id: for every key k of properties_db, properties_db[k]['id'] = k, so
\* get_property(k) never returns a record whose id differs from k.
C28_StoredUnderOwnId ==
    /\ \A i \in 1..Len(properties_db) :
          properties_db[i].value.id = properties_db[i].key
    /\ (store_result.op = "get_property" /\ store_result.ok)
          => store_result.ret[1].id = store_result.id

\* C29: seeding is idempotent with respect to the admin account: after the
\* store module has been loaded and init_db() has run any number of times,
\* exactly one user record has the email admin@realestate.com.
C29_OneSeededAdmin ==
    Cardinality({i \in 1..Len(users_db) : users_db[i].email = admin_email}) = 1

\* C30: a bearer token issued by login keeps resolving to the same user
\* account at every time before its expiry, across the profile updates that
\* user makes, a change of email included: no step changes the account an
\* issued, unexpired token resolves to.
C30_TokenKeepsResolving ==
    [][ \A token \in tokens :
           (verify_token(token) # NoPayload)' =>
              get_current_user(token)' = get_current_user(token)
      ]_vars
====
